---- MODULE Spec2Model ----
(***************************************************************************)
(* A model of micrograd.py: the Value class (a scalar with a gradient and  *)
(* its provenance), its operator methods, and Value.backward.              *)
(*                                                                         *)
(* Value objects live in an arena, the sequence `nodes`; an object's       *)
(* identity is its index.  Python numbers are modelled as exact rationals  *)
(* n/d tagged with their Python type ("int" or "float"), a str by its      *)
(* length, and a raised exception by a value whose tag is the exception's  *)
(* name.                                                                   *)
(***************************************************************************)
EXTENDS Integers, Sequences, FiniteSets, TLC

(* ------------------------------ bounds -------------------------------- *)

\* Number of calls (constructor or operator method) a run makes.
MaxCalls == 2

\* Number of backward() calls a run makes.
MaxPasses == 2

(* ------------------------- Python scalar values ----------------------- *)

Abs(x) == IF x < 0 THEN -x ELSE x

RECURSIVE Gcd(_, _)
Gcd(a, b) == IF b = 0 THEN a ELSE Gcd(b, a % b)

RECURSIVE IPow(_, _)
IPow(b, e) == IF e = 0 THEN 1 ELSE b * IPow(b, e - 1)

\* A value n/d of tag t, in lowest terms with a positive denominator.
Mk(t, n, d) ==
    LET g == Gcd(Abs(n), Abs(d))
        s == IF d < 0 THEN -1 ELSE 1
    IN  [t |-> t, n |-> (s * n) \div g, d |-> (s * d) \div g]

I(n) == [t |-> "int", n |-> n, d |-> 1]
F(n) == [t |-> "float", n |-> n, d |-> 1]
Str(len) == [t |-> "str", n |-> len, d |-> 1]
Raised(e) == [t |-> e, n |-> 0, d |-> 1]

IsNum(x) == x.t \in {"int", "float"}
IsErr(x) == x.t \in {"ZeroDivisionError", "TypeError", "AssertionError"}

\* Python's ==  on two numbers: 2 == 2.0.
NumEq(x, y) == IsNum(x) /\ IsNum(y) /\ x.n = y.n /\ x.d = y.d

\* The type of the result of an int/float operation.
NumType(x, y) == IF x.t = "int" /\ y.t = "int" THEN "int" ELSE "float"

\* x + y
PyAdd(x, y) ==
    IF IsErr(x) THEN x
    ELSE IF IsErr(y) THEN y
    ELSE IF IsNum(x) /\ IsNum(y)
         THEN Mk(NumType(x, y), x.n * y.d + y.n * x.d, x.d * y.d)
    ELSE IF x.t = "str" /\ y.t = "str" THEN Str(x.n + y.n)
    ELSE Raised("TypeError")

\* x * y: int * str repeats the str, float * str is a TypeError.
PyMul(x, y) ==
    IF IsErr(x) THEN x
    ELSE IF IsErr(y) THEN y
    ELSE IF IsNum(x) /\ IsNum(y)
         THEN Mk(NumType(x, y), x.n * y.n, x.d * y.d)
    ELSE IF x.t = "int" /\ y.t = "str" THEN Str(IF x.n > 0 THEN x.n * y.n ELSE 0)
    ELSE IF x.t = "str" /\ y.t = "int" THEN Str(IF y.n > 0 THEN y.n * x.n ELSE 0)
    ELSE Raised("TypeError")

\* -x
PyNeg(x) ==
    IF IsErr(x) THEN x
    ELSE IF IsNum(x) THEN Mk(x.t, -x.n, x.d)
    ELSE Raised("TypeError")

\* x - y
PySub(x, y) ==
    IF IsErr(x) THEN x
    ELSE IF IsErr(y) THEN y
    ELSE IF IsNum(x) /\ IsNum(y)
         THEN Mk(NumType(x, y), x.n * y.d - y.n * x.d, x.d * y.d)
    ELSE Raised("TypeError")

\* x / y
PyTrueDiv(x, y) ==
    IF IsErr(x) THEN x
    ELSE IF IsErr(y) THEN y
    ELSE IF ~(IsNum(x) /\ IsNum(y)) THEN Raised("TypeError")
    ELSE IF y.n = 0 THEN Raised("ZeroDivisionError")
    ELSE Mk("float", x.n * y.d, x.d * y.n)

\* x ** k for an integer-valued k: zero to a negative power raises.
PyPow(x, k) ==
    IF IsErr(x) THEN x
    ELSE IF IsErr(k) THEN k
    ELSE IF ~(IsNum(x) /\ IsNum(k)) THEN Raised("TypeError")
    ELSE IF k.n >= 0 THEN Mk(NumType(x, k), IPow(x.n, k.n), IPow(x.d, k.n))
    ELSE IF x.n = 0 THEN Raised("ZeroDivisionError")
    ELSE Mk("float", IPow(x.d, -k.n), IPow(x.n, -k.n))

\* math.exp(x) where the result is rational: math.exp(0) == 1.0.
MathExp(x) ==
    IF IsErr(x) THEN x
    ELSE IF ~IsNum(x) THEN Raised("TypeError")
    ELSE F(1)

\* The arguments on which MathExp is modelled.
MathExpDomain(x) == IsNum(x) /\ x.n = 0

(* --------------------------- program inputs ---------------------------- *)

\* The data a caller wraps with Value(data).
LeafData == {F(0), I(2)}

\* The numbers a caller passes where an operator accepts a number.
Scalars == {I(2)}

\* The exponents a caller passes to **.
Exponents == {I(-1), I(0), I(2)}

\* The operands a caller passes that are neither a Value nor a number.
NonNumeric == {Str(1)}

(* ------------------------------- state -------------------------------- *)

VARIABLES
    nodes,      \* the Value objects reachable from the caller's, by identity
    held,       \* the objects the caller holds: those a call returned
    dropped,    \* data of the Value objects built by a call that then raised
    last,       \* the last call: its method, receiver, argument, result
    err,        \* the exception the last call raised, or "none"
    calls,      \* number of constructor and operator calls made
    hist,       \* the backward() calls made: the root and whether it returned
    topo,       \* the list build_topo built in the last backward()
    executed    \* the nodes whose _backward the last backward() called, in order

vars == <<nodes, held, dropped, last, err, calls, hist, topo, executed>>

Ids == 1..Len(nodes)

\* An argument of an operator method: a Value (by identity) or a raw object.
Node(j) == [kind |-> "node", i |-> j, v |-> I(0)]
Raw(x) == [kind |-> "raw", i |-> 0, v |-> x]
NoArg == Raw(I(0))

(* --------------------------- Value.__init__ --------------------------- *)

\* Faulty variant of NewValue: grad does not start at 0.0.
NewValueBadGrad(data, children, op, self, other, k) ==
    [data |-> data, grad |-> F(1), prev |-> children, op |-> op,
     self |-> self, other |-> other, k |-> k]

\* Value(data, _children, _op): grad is 0.0, _prev is set(_children); self,
\* other and k are what the _backward closure attached afterwards captures.
NewValue(data, children, op, self, other, k) ==
    [data |-> data, grad |-> F(0), prev |-> children, op |-> op,
     self |-> self, other |-> other, k |-> k]

\* The outcome of a method: the arena, and the object returned or the exception.
Ret(ns, out) == [nodes |-> ns, out |-> out, err |-> "none"]
Raise(ns, e) == [nodes |-> ns, out |-> 0, err |-> e]

Alloc(ns, node) == Ret(Append(ns, node), Len(ns) + 1)

\* other = other if isinstance(other, Value) else Value(other)
Wrap(ns, o) ==
    IF o.kind = "node" THEN Ret(ns, o.i)
    ELSE Alloc(ns, NewValue(o.v, {}, "", 0, 0, I(0)))

(* ------------------------- operator methods --------------------------- *)

add(ns, i, o) ==
    LET w == Wrap(ns, o)
        r == PyAdd(w.nodes[i].data, w.nodes[w.out].data)
    IN  IF IsErr(r) THEN Raise(w.nodes, r.t)
        ELSE Alloc(w.nodes, NewValue(r, {i, w.out}, "+", i, w.out, I(0)))

mul(ns, i, o) ==
    LET w == Wrap(ns, o)
        r == PyMul(w.nodes[i].data, w.nodes[w.out].data)
    IN  IF IsErr(r) THEN Raise(w.nodes, r.t)
        ELSE Alloc(w.nodes, NewValue(r, {i, w.out}, "*", i, w.out, I(0)))

\* Faulty variant of neg: multiplies by 1.
negKeepSign(ns, i) == mul(ns, i, Raw(I(1)))

\* self * -1
neg(ns, i) == mul(ns, i, Raw(I(-1)))

\* Faulty variant of Exponent: a Value is unwrapped to its data, as the other
\* operators do with their operand.
ExponentUnwrap(ns, o) ==
    IF o.kind = "node" THEN ns[o.i].data
    ELSE IF IsNum(o.v) THEN o.v
    ELSE Raised("AssertionError")

\* assert isinstance(other, (int, float)): the exponent, or the AssertionError.
Exponent(ns, o) ==
    IF o.kind = "raw" /\ IsNum(o.v) THEN o.v ELSE Raised("AssertionError")

pow(ns, i, o) ==
    LET k == Exponent(ns, o)
        r == PyPow(ns[i].data, k)
    IN  IF IsErr(r) THEN Raise(ns, r.t)
        ELSE Alloc(ns, NewValue(r, {i}, "**", i, 0, k))

\* self + (-other): -other is Value.__neg__ on a Value, Python's own on the rest.
sub(ns, i, o) ==
    IF o.kind = "node"
    THEN LET m == neg(ns, o.i)
         IN  IF m.err # "none" THEN m ELSE add(m.nodes, i, Node(m.out))
    ELSE LET m == PyNeg(o.v)
         IN  IF IsErr(m) THEN Raise(ns, m.t) ELSE add(ns, i, Raw(m))

\* self * other**-1: other**-1 is Value.__pow__ on a Value, Python's own on the rest.
truediv(ns, i, o) ==
    IF o.kind = "node"
    THEN LET m == pow(ns, o.i, Raw(I(-1)))
         IN  IF m.err # "none" THEN m ELSE mul(m.nodes, i, Node(m.out))
    ELSE LET m == PyPow(o.v, I(-1))
         IN  IF IsErr(m) THEN Raise(ns, m.t) ELSE mul(ns, i, Raw(m))

\* self * other
rmul(ns, i, o) == mul(ns, i, o)

tanh(ns, i) ==
    LET x == ns[i].data
        e == MathExp(PyMul(I(2), x))
        t == PyTrueDiv(PySub(e, I(1)), PyAdd(e, I(1)))
    IN  IF IsErr(t) THEN Raise(ns, t.t)
        ELSE Alloc(ns, NewValue(t, {i}, "tanh", i, 0, I(0)))

exp(ns, i) ==
    LET r == MathExp(ns[i].data)
    IN  IF IsErr(r) THEN Raise(ns, r.t)
        ELSE Alloc(ns, NewValue(r, {i}, "exp", i, 0, I(0)))

(* ---------------------- the _backward closures ------------------------ *)

\* The outcome of a _backward: the arena, and the exception raised or "none".
Done(ns) == [nodes |-> ns, err |-> "none"]
Fail(ns, e) == [nodes |-> ns, err |-> e]

\* lambda: None
LeafBackward(ns, v) == Done(ns)

\* self.grad += 1 * out.grad; other.grad += 1 * out.grad
AddBackward(ns, v) ==
    LET n1 == [ns EXCEPT ![ns[v].self].grad = PyAdd(@, PyMul(I(1), ns[v].grad))]
        n2 == [n1 EXCEPT ![n1[v].other].grad = PyAdd(@, PyMul(I(1), n1[v].grad))]
    IN  Done(n2)

\* Faulty variant of MulBackward: assigns the contribution instead of adding it.
MulBackwardOverwrite(ns, v) ==
    LET c1 == PyMul(ns[ns[v].other].data, ns[v].grad)
        n1 == [ns EXCEPT ![ns[v].self].grad = c1]
        c2 == PyMul(n1[n1[v].self].data, n1[v].grad)
        n2 == [n1 EXCEPT ![n1[v].other].grad = c2]
    IN  IF IsErr(c1) THEN Fail(ns, c1.t)
        ELSE IF IsErr(c2) THEN Fail(n1, c2.t)
        ELSE Done(n2)

\* self.grad += other.data * out.grad; other.grad += self.data * out.grad
MulBackward(ns, v) ==
    LET c1 == PyMul(ns[ns[v].other].data, ns[v].grad)
        n1 == [ns EXCEPT ![ns[v].self].grad = PyAdd(@, c1)]
        c2 == PyMul(n1[n1[v].self].data, n1[v].grad)
        n2 == [n1 EXCEPT ![n1[v].other].grad = PyAdd(@, c2)]
    IN  IF IsErr(c1) THEN Fail(ns, c1.t)
        ELSE IF IsErr(c2) THEN Fail(n1, c2.t)
        ELSE Done(n2)

\* self.grad += other * self.data**(other-1) * out.grad
PowBackward(ns, v) ==
    LET k == ns[v].k
        c == PyMul(PyMul(k, PyPow(ns[ns[v].self].data, PySub(k, I(1)))), ns[v].grad)
    IN  IF IsErr(c) THEN Fail(ns, c.t)
        ELSE Done([ns EXCEPT ![ns[v].self].grad = PyAdd(@, c)])

\* self.grad += (1 - t**2) * out.grad
TanhBackward(ns, v) ==
    LET c == PyMul(PySub(I(1), PyPow(ns[v].data, I(2))), ns[v].grad)
    IN  IF IsErr(c) THEN Fail(ns, c.t)
        ELSE Done([ns EXCEPT ![ns[v].self].grad = PyAdd(@, c)])

\* self.grad += out.data * out.grad
ExpBackward(ns, v) ==
    LET c == PyMul(ns[v].data, ns[v].grad)
    IN  IF IsErr(c) THEN Fail(ns, c.t)
        ELSE Done([ns EXCEPT ![ns[v].self].grad = PyAdd(@, c)])

\* node._backward()
RunBackward(ns, v) ==
    CASE ns[v].op = "+" -> AddBackward(ns, v)
      [] ns[v].op = "*" -> MulBackward(ns, v)
      [] ns[v].op = "**" -> PowBackward(ns, v)
      [] ns[v].op = "tanh" -> TanhBackward(ns, v)
      [] ns[v].op = "exp" -> ExpBackward(ns, v)
      [] OTHER -> LeafBackward(ns, v)

(* --------------------------- Value.backward --------------------------- *)

Min(S) == CHOOSE x \in S : \A y \in S : x <= y
Max(S) == CHOOSE x \in S : \A y \in S : x >= y

\* for child in v._prev: a set is iterated in an order the caller does not
\* choose; `flip` holds the nodes whose set iterates from the newer operand.
Children(ns, v, flip) ==
    LET P == ns[v].prev
    IN  IF P = {} THEN <<>>
        ELSE IF Cardinality(P) = 1 THEN <<Min(P)>>
        ELSE IF v \in flip THEN <<Max(P), Min(P)>>
        ELSE <<Min(P), Max(P)>>

\* Faulty variant of build_topo: appends a node before its operands.
RECURSIVE build_topo_preorder(_, _, _, _)
build_topo_preorder(ns, v, st, flip) ==
    IF v \in st.visited THEN st
    ELSE LET cs == Children(ns, v, flip)
             s0 == [visited |-> st.visited \cup {v}, topo |-> Append(st.topo, v)]
             s1 == IF Len(cs) >= 1 THEN build_topo_preorder(ns, cs[1], s0, flip) ELSE s0
         IN  IF Len(cs) >= 2 THEN build_topo_preorder(ns, cs[2], s1, flip) ELSE s1

\* build_topo(v), on top of the visited set and the topo list in st
RECURSIVE build_topo(_, _, _, _)
build_topo(ns, v, st, flip) ==
    IF v \in st.visited THEN st
    ELSE LET cs == Children(ns, v, flip)
             s0 == [st EXCEPT !.visited = @ \cup {v}]
             s1 == IF Len(cs) >= 1 THEN build_topo(ns, cs[1], s0, flip) ELSE s0
             s2 == IF Len(cs) >= 2 THEN build_topo(ns, cs[2], s1, flip) ELSE s1
         IN  [s2 EXCEPT !.topo = Append(@, v)]

\* topo = []; visited = set(); build_topo(self)
Topo(ns, v, flip) == build_topo(ns, v, [visited |-> {}, topo |-> <<>>], flip).topo

\* Faulty variant of Seed: adds 1.0 to the grad root holds.
SeedAccumulate(ns, v) == [ns EXCEPT ![v].grad = PyAdd(@, F(1))]

\* Faulty variant of Seed: resets every grad to 0.0 first.
SeedAfterReset(ns, v) ==
    [j \in DOMAIN ns |-> [ns[j] EXCEPT !.grad = IF j = v THEN F(1) ELSE F(0)]]

\* self.grad = 1.0
Seed(ns, v) == [ns EXCEPT ![v].grad = F(1)]

\* for node in reversed(topo): node._backward(), from position pos down; an
\* exception ends the loop.
RECURSIVE Replay(_, _, _)
Replay(st, order, pos) ==
    IF pos = 0 THEN st
    ELSE LET r == RunBackward(st.nodes, order[pos])
             s == [nodes |-> r.nodes, err |-> r.err,
                   executed |-> Append(st.executed, order[pos])]
         IN  IF r.err # "none" THEN s ELSE Replay(s, order, pos - 1)

\* The nodes reachable from v through _prev.
RECURSIVE Reach(_, _)
Reach(ns, v) == {v} \cup UNION {Reach(ns, c) : c \in ns[v].prev}

(* ------------------------------ actions ------------------------------- *)

Init ==
    /\ nodes = <<>>
    /\ held = {}
    /\ dropped = {}
    /\ last = [op |-> "none", self |-> 0, other |-> NoArg, out |-> 0]
    /\ err = "none"
    /\ calls = 0
    /\ hist = <<>>
    /\ topo = <<>>
    /\ executed = <<>>

\* What a constructor or operator call leaves behind: on an exception the
\* objects it built are unreachable, on a return they hang off the result.
Call(name, i, o, h) ==
    /\ calls < MaxCalls
    /\ calls' = calls + 1
    /\ nodes' = IF h.err = "none" THEN h.nodes ELSE nodes
    /\ held' = IF h.err = "none" THEN held \cup {h.out} ELSE held
    /\ dropped' = IF h.err = "none" THEN dropped
                  ELSE dropped \cup {h.nodes[j].data : j \in (Len(nodes) + 1)..Len(h.nodes)}
    /\ err' = h.err
    /\ last' = [op |-> name, self |-> i, other |-> o, out |-> h.out]
    /\ UNCHANGED <<hist, topo, executed>>

Operands == {Node(j) : j \in held} \cup {Raw(x) : x \in Scalars \cup NonNumeric}

PowOperands == {Node(j) : j \in held} \cup {Raw(x) : x \in Exponents \cup NonNumeric}

\* a = Value(data)
Value ==
    \E x \in LeafData :
        Call("Value", 0, Raw(x), Alloc(nodes, NewValue(x, {}, "", 0, 0, I(0))))

\* a + o
Add == \E i \in held, o \in Operands : Call("add", i, o, add(nodes, i, o))

\* -a
Neg == \E i \in held : Call("neg", i, NoArg, neg(nodes, i))

\* a - o
Sub == \E i \in held, o \in Operands : Call("sub", i, o, sub(nodes, i, o))

\* a * o
Mul == \E i \in held, o \in Operands : Call("mul", i, o, mul(nodes, i, o))

\* x * a, for an x that is not a Value
RMul ==
    \E i \in held, x \in Scalars \cup NonNumeric :
        Call("rmul", i, Raw(x), rmul(nodes, i, Raw(x)))

\* a.tanh()
Tanh ==
    \E i \in held :
        /\ MathExpDomain(PyMul(I(2), nodes[i].data))
        /\ Call("tanh", i, NoArg, tanh(nodes, i))

\* a / o
TrueDiv == \E i \in held, o \in Operands : Call("truediv", i, o, truediv(nodes, i, o))

\* a.exp()
Exp ==
    \E i \in held :
        /\ MathExpDomain(nodes[i].data)
        /\ Call("exp", i, NoArg, exp(nodes, i))

\* a ** o
Pow == \E i \in held, o \in PowOperands : Call("pow", i, o, pow(nodes, i, o))

\* a.backward()
Backward ==
    \E i \in held :
        \E flip \in SUBSET {j \in Reach(nodes, i) : Cardinality(nodes[j].prev) = 2} :
            LET order == Topo(nodes, i, flip)
                r == Replay([nodes |-> Seed(nodes, i), err |-> "none", executed |-> <<>>],
                            order, Len(order))
            IN  /\ Len(hist) < MaxPasses
                /\ nodes' = r.nodes
                /\ err' = r.err
                /\ topo' = order
                /\ executed' = r.executed
                /\ hist' = Append(hist, [root |-> i, ok |-> r.err = "none"])
                /\ last' = [op |-> "backward", self |-> i, other |-> NoArg, out |-> 0]
                /\ UNCHANGED <<held, dropped, calls>>

Next ==
    \/ Value
    \/ Add
    \/ Neg
    \/ Sub
    \/ Mul
    \/ RMul
    \/ Tanh
    \/ TrueDiv
    \/ Exp
    \/ Pow
    \/ Backward

Spec == Init /\ [][Next]_vars

(* ------------------- what the claims are stated in -------------------- *)

\* The root of the last backward() call.
LastRoot == hist[Len(hist)].root

\* The derivative of node u with respect to node v through u's own operation,
\* summed over the operand positions of u that v fills.
LocalDeriv(ns, u, v) ==
    LET n == ns[u]
        a == IF n.self = 0 THEN F(0) ELSE ns[n.self].data
        b == IF n.other = 0 THEN F(0) ELSE ns[n.other].data
        at1 == n.self = v
        at2 == n.other = v
    IN  CASE n.op = "+" -> PyAdd(IF at1 THEN F(1) ELSE F(0), IF at2 THEN F(1) ELSE F(0))
          [] n.op = "*" -> PyAdd(IF at1 THEN b ELSE F(0), IF at2 THEN a ELSE F(0))
          [] n.op = "**" -> IF at1 THEN PyMul(n.k, PyPow(a, PySub(n.k, I(1)))) ELSE F(0)
          [] n.op = "tanh" -> IF at1 THEN PySub(F(1), PyMul(n.data, n.data)) ELSE F(0)
          [] n.op = "exp" -> IF at1 THEN n.data ELSE F(0)
          [] OTHER -> F(0)

\* The sum, over the operand paths from r to v, of the product of the local
\* derivatives along the path.
RECURSIVE PathSum(_, _, _)
RECURSIVE PathSumVia(_, _, _, _)
PathSum(ns, r, v) == IF v = r THEN F(1) ELSE PathSumVia(ns, r, v, v + 1)
PathSumVia(ns, r, v, u) ==
    IF u > r THEN F(0)
    ELSE PyAdd(IF u \in Reach(ns, r) /\ v \in ns[u].prev
               THEN PyMul(PathSum(ns, r, u), LocalDeriv(ns, u, v))
               ELSE F(0),
               PathSumVia(ns, r, v, u + 1))

\* The same sum with each path's product taken as many times as the path has
\* edges.
RECURSIVE PathLenSum(_, _, _)
RECURSIVE PathLenSumVia(_, _, _, _)
PathLenSum(ns, r, v) == IF v = r THEN F(0) ELSE PathLenSumVia(ns, r, v, v + 1)
PathLenSumVia(ns, r, v, u) ==
    IF u > r THEN F(0)
    ELSE PyAdd(IF u \in Reach(ns, r) /\ v \in ns[u].prev
               THEN PyMul(PyAdd(PathLenSum(ns, r, u), PathSum(ns, r, u)),
                          LocalDeriv(ns, u, v))
               ELSE F(0),
               PathLenSumVia(ns, r, v, u + 1))

\* The graph under r is built with +, *, ** (positive integer exponent) and
\* the negate and subtract derived from them, over numbers.
Arithmetic(ns, r) ==
    \A u \in Reach(ns, r) :
        /\ IsNum(ns[u].data)
        /\ ns[u].op \in {"", "+", "*", "**"}
        /\ ns[u].op = "**" => ns[u].k.n > 0

IsLeaf(ns, v) == ns[v].prev = {}

\* The reachable nodes that have v as an operand.
Consumers(ns, r, v) == {u \in Reach(ns, r) : v \in ns[u].prev}

\* The grads one r.backward() leaves on the graph when every grad is 0 before.
SinglePass(ns, r) ==
    LET zero == [j \in DOMAIN ns |-> [ns[j] EXCEPT !.grad = F(0)]]
        order == Topo(zero, r, {})
    IN  Replay([nodes |-> Seed(zero, r), err |-> "none", executed |-> <<>>],
               order, Len(order)).nodes

\* The value of an argument as an operation sees it.
ArgData(o) == IF o.kind = "node" THEN nodes[o.i].data ELSE o.v

(* ------------------------------- claims ------------------------------- *)

C2_Forward ==
    (err = "none" /\ last.out # 0 /\ last.op # "Value" /\ IsNum(ArgData(last.other))
        /\ IsNum(nodes[last.self].data)) =>
        LET a == nodes[last.self].data
            b == ArgData(last.other)
            c == nodes[last.out].data
        IN  /\ last.op = "add" => NumEq(c, PyAdd(a, b))
            /\ last.op \in {"mul", "rmul"} => NumEq(c, PyMul(a, b))
            /\ last.op = "sub" => NumEq(c, PySub(a, b))
            /\ last.op = "neg" => NumEq(c, PySub(I(0), a))
            /\ last.op = "truediv" => NumEq(c, PyTrueDiv(a, b))
            /\ last.op = "pow" => NumEq(c, PyPow(a, b))
            /\ (last.op = "tanh" /\ NumEq(a, I(0))) => NumEq(c, I(0))

\* C2 witness: a subtraction of a node from itself has returned, over data that
\* is not 0.
C2_Witness ==
    /\ err = "none"
    /\ last.op = "sub"
    /\ last.other = Node(last.self)
    /\ ~NumEq(nodes[last.self].data, I(0))

\* Two backward() calls have been made, on the same root, and both returned.
TwoPasses ==
    /\ Len(hist) = 2
    /\ hist[1].root = hist[2].root
    /\ hist[1].ok
    /\ hist[2].ok

\* C3, as stated: two root.backward() calls in a row on a graph whose grads were
\* all 0 leave every leaf (other than root itself) with exactly twice the grad a
\* single call produces, whatever its depth under root.
C3_TwiceSinglePass ==
    TwoPasses =>
        \A v \in Reach(nodes, LastRoot) \ {LastRoot} :
            IsLeaf(nodes, v) =>
                NumEq(nodes[v].grad,
                      PyMul(I(2), SinglePass(nodes, LastRoot)[v].grad))

\* C3, amended: two root.backward() calls in a row that both return leave every
\* leaf other than root with the sum, over the operand paths from root, of
\* (length of the path + 1) times the product of the local derivatives along
\* it; that is exactly twice the single-call grad for a leaf whose only consumer
\* is root, and root itself holds 1.0.
C3_PathLengthWeighted ==
    TwoPasses =>
        /\ nodes[LastRoot].grad = F(1)
        /\ \A v \in Reach(nodes, LastRoot) \ {LastRoot} :
               IsLeaf(nodes, v) =>
                   /\ NumEq(nodes[v].grad,
                            PyAdd(PathSum(nodes, LastRoot, v),
                                  PathLenSum(nodes, LastRoot, v)))
                   /\ Consumers(nodes, LastRoot, v) = {LastRoot} =>
                          NumEq(nodes[v].grad,
                                PyMul(I(2), SinglePass(nodes, LastRoot)[v].grad))

\* C3 witness: after the two calls a leaf that is no operand of root holds a
\* grad that is not twice its single-call grad.
C3_Witness ==
    /\ TwoPasses
    /\ \E v \in Reach(nodes, LastRoot) \ {LastRoot} :
           /\ IsLeaf(nodes, v)
           /\ v \notin nodes[LastRoot].prev
           /\ ~NumEq(nodes[v].grad, PyMul(I(2), SinglePass(nodes, LastRoot)[v].grad))

\* How many times node v is in the sequence q.
Count(q, v) == Cardinality({p \in 1..Len(q) : q[p] = v})

\* C4: one root.backward() executes the _backward of every node reachable from
\* root exactly once, and of no other node.
C4_ExactlyOnce ==
    last.op = "backward" =>
        \A v \in Ids :
            Count(executed, v) = IF v \in Reach(nodes, last.self) THEN 1 ELSE 0

\* C5: build_topo places every operand of a node before the node, and when a
\* node's _backward executes, the _backward of every node reachable from root
\* that has it as an operand has executed before in this pass.
C5_ConsumersFirst ==
    Len(hist) > 0 =>
        /\ \A p \in 1..Len(topo) :
               \A c \in nodes[topo[p]].prev : \E q \in 1..(p - 1) : topo[q] = c
        /\ \A p \in 1..Len(executed) :
               \A u \in Consumers(nodes, LastRoot, executed[p]) :
                   \E q \in 1..(p - 1) : executed[q] = u

\* C5 witness: a pass has returned over a graph in which an operand of root is
\* also an operand of another node under root.
C5_Witness ==
    /\ last.op = "backward"
    /\ err = "none"
    /\ \E v \in nodes[last.self].prev :
           \E u \in Reach(nodes, last.self) \ {last.self} : v \in nodes[u].prev

\* C6: when root.backward() has returned, root.grad is exactly 1.0, whatever
\* the grads were before the call.
C6_Seed == (last.op = "backward" /\ err = "none") => nodes[last.self].grad = F(1)

\* C6 witness: a second pass has returned whose root held a grad other than 0
\* from a pass on another root above it.
C6_Witness ==
    /\ last.op = "backward"
    /\ err = "none"
    /\ Len(hist) = 2
    /\ hist[1].root # hist[2].root
    /\ hist[2].root \in Reach(nodes, hist[1].root)
    /\ ~NumEq(SinglePass(nodes, hist[1].root)[hist[2].root].grad, F(0))

\* C7: no call fails on a numeric edge case: a / b with b.data == 0 returns a
\* node, and backward() through a power of a zero base returns.
C7_NoNumericError ==
    /\ err # "ZeroDivisionError"
    /\ (/\ last.op = "truediv"
        /\ IsNum(nodes[last.self].data)
        /\ NumEq(ArgData(last.other), I(0))) => last.out # 0

\* C8: a ** k with a Value as k ends in an error, creates no node and leaves
\* every existing node as it was.
C8_NodeExponent ==
    [][(calls' # calls /\ last'.op = "pow" /\ last'.other.kind = "node") =>
           /\ err' # "none"
           /\ last'.out = 0
           /\ nodes' = nodes
           /\ held' = held
           /\ dropped' = dropped]_vars

\* C8 witness: a ** b with a Value b has been called and has raised.
C8_Witness ==
    /\ last.op = "pow"
    /\ last.other.kind = "node"
    /\ err = "AssertionError"

\* C9: add, subtract, multiply and divide fail on an operand that is neither a
\* Value nor a number, and no node holds data that is not a number.
C9_NonNumericOperand ==
    /\ (/\ last.op \in {"add", "sub", "mul", "rmul", "truediv"}
        /\ last.other.kind = "raw"
        /\ ~IsNum(last.other.v)) => (err # "none" /\ last.out = 0)
    /\ \A i \in Ids : IsNum(nodes[i].data)

\* C10: data and the operand set of a node never change; a builder call changes
\* no grad, so every grad is 0 until the first backward(); root.backward()
\* changes no grad outside the nodes reachable from root.
C10_OnlyGradMutates ==
    /\ [](hist = <<>> => \A i \in Ids : nodes[i].grad = F(0))
    /\ [][/\ Len(nodes') >= Len(nodes)
          /\ \A i \in Ids :
                 /\ nodes'[i].data = nodes[i].data
                 /\ nodes'[i].prev = nodes[i].prev
          /\ calls' # calls => \A i \in Ids : nodes'[i].grad = nodes[i].grad
          /\ hist' # hist =>
                 \A i \in Ids \ Reach(nodes, hist'[Len(hist')].root) :
                     nodes'[i].grad = nodes[i].grad]_vars

\* C10 witness: a pass has run while a node outside its root's graph held the
\* grad an earlier pass left on it.
C10_Witness ==
    /\ last.op = "backward"
    /\ \E i \in Ids \ Reach(nodes, last.self) : ~NumEq(nodes[i].grad, F(0))

====
